---- MODULE Spec2Model ----
(***************************************************************************)
(* A model of pagmo::worhp::evolve (include/pagmo_plugins_nonfree/         *)
(* worhp.hpp): the preamble checks, the run-time loading of the WORHP      *)
(* library, the set-up of the four WORHP records, the reverse              *)
(* communication loop, and the re-insertion of the optimised individual.   *)
(*                                                                         *)
(* The WORHP library is not part of the repository: each of its entry      *)
(* points is an action whose effect on the Control record (status and      *)
(* requested user actions) and on the decision vector is a free choice, so *)
(* the driver is checked against every behaviour of the solver.            *)
(***************************************************************************)
EXTENDS Integers, Sequences, FiniteSets, TLC

VARIABLES
    pc,                 \* position of the evolve call in its code
    prob,               \* pop.get_problem(): [nobj, stochastic, nc, nec]
    pop_in,             \* the population evolve was called with
    pop,                \* evolve's own copy of the population (passed by value)
    err,                \* the exception leaving evolve, type "none" while there is none
    ret,                \* the population evolve returned, <<>> before it returns
    library_load_mutex, \* detail::worhp_statics<>::library_load_mutex is held
    libworhp,           \* the boost::dll::shared_library of the try block
    imported,           \* the std::function objects bound so far, in import order
    caught,             \* e.what() of the exception the catch clause received
    opt, wsp, par, cnt, \* the OptVar, Workspace, Params and Control records
    sel_xf,             \* x0 and f0: the result of select_individual
    x_final, f_final,   \* the candidate read back after the loop
    calls,              \* the last two calls made through the solver capability
    lifecycle,          \* the set-up and tear-down entry points called, in order
    turnPolls,          \* the request flags polled in the current loop turn
    initSaw,            \* what WorhpInit found in the records when it was called
    replaced,           \* replace_individual was called
    everLocked,         \* the mutex was taken at some point of this call
    everLoaded,         \* boost::dll::shared_library was constructed at some point
    access,             \* the record fields evolve's own statements touched in the last step
    turnStart,          \* the requests set when the loop condition was last read, where kept
    constructed,        \* a worhp object has been constructed
    m_screen_output,    \* worhp::m_screen_output
    m_verbosity,        \* worhp::m_verbosity
    ops,                \* the last two calls of set_verbosity and get_verbosity
    thread              \* the concurrent evolve calls: position and symbols bound

\* the members of the worhp object that evolve does not read
object == <<constructed, m_screen_output, m_verbosity, ops>>

\* evolve calls running on several threads of the process
threads == <<thread>>

\* the state of the one evolve call followed step by step
call == <<pc, prob, pop_in, pop, err, ret, libworhp, imported, caught, opt, wsp, par,
          cnt, sel_xf, x_final, f_final, calls, lifecycle, turnPolls, initSaw, replaced,
          everLocked, everLoaded, access, turnStart>>

vars == <<pc, prob, pop_in, pop, err, ret, library_load_mutex, libworhp, imported,
          caught, opt, wsp, par, cnt, sel_xf, x_final, f_final, calls, lifecycle,
          turnPolls, initSaw, replaced, everLocked, everLoaded, access, turnStart,
          object, threads>>

----------------------------------------------------------------------------
(* Bounds of the model. *)

\* populations hold 0..MaxPop individuals
MaxPop == 2
\* problems have 0..MaxM constraints
MaxM == 2
\* the box of the problem is [0, MaxX] in its single dimension
MaxX == 1
\* verbosity levels are 0..MaxVerbosity
MaxVerbosity == 2

\* the populations and problems of the specification with fairness
MaxPopFair == 1

MaxMFair == 1
\* evolve is called on NThreads threads at once
NThreads == 2

----------------------------------------------------------------------------
(* The host problem and population (pagmo::problem, pagmo::population). *)

\* prob.get_bounds(): lower and upper bound of the one-dimensional box
lb == <<0>>
ub == <<MaxX>>

\* prob.get_nx()
dim == Len(lb)

\* the decision vectors inside the box
XVecs == {<<v>> : v \in lb[1]..ub[1]}

\* the problems evolve may be handed: objectives, stochasticity, constraint counts
Problems == {[nobj |-> o, stochastic |-> s, nc |-> m, nec |-> e] :
                o \in {1, 2}, s \in BOOLEAN, m \in 0..MaxM, e \in 0..MaxM}

\* prob.fitness(x) of a single-objective problem: the objective, then the
\* constraints, equality constraints first. The objective prefers small x,
\* odd constraints are x - 1 and even ones x + 1: as the constraint counts
\* vary, two points differ in the number of constraints they satisfy, in the
\* size of the violation only, or in the objective only.
fitness(p, x) ==
    <<x[1]>> \o [i \in 1..p.nc |-> IF i % 2 = 1 THEN x[1] - 1 ELSE x[1] + 1]

\* prob.get_c_tol(): the constraint tolerances (pagmo's default, all zero)
c_tol(p) == [i \in 1..p.nc |-> 0]

\* the populations of problem p: every individual carries its own fitness
Individuals(p) == {[x |-> x, f |-> fitness(p, x)] : x \in XVecs}

Populations(p) == UNION {[1..k -> Individuals(p)] : k \in 0..MaxPop}

----------------------------------------------------------------------------
(* Values. *)

NoError == [type |-> "none", what |-> "", cause |-> ""]

NoCall == [f |-> "none", a |-> "", r |-> "none"]

\* the ten symbols imported from the library, in the order of the imports
Required == <<"WorhpPreInit", "WorhpInit", "ReadParams", "GetUserAction",
              "DoneUserAction", "IterationOutput", "Worhp", "StatusMsg",
              "WorhpFree", "WorhpFidif">>

RequiredSet == {Required[i] : i \in 1..Len(Required)}

\* what may be found at m_worhp_library: no regular file, a file that is no
\* loadable module, or a module exporting some of the symbols
Libraries == {[file |-> FALSE, module |-> FALSE, syms |-> {}],
              [file |-> TRUE, module |-> FALSE, syms |-> {}]}
             \cup {[file |-> TRUE, module |-> TRUE, syms |-> RequiredSet \ miss] :
                      miss \in {{}} \cup {{s} : s \in RequiredSet}}

Closed == [file |-> FALSE, module |-> FALSE, syms |-> {}]

\* records before WorhpPreInit has seen them
EmptyOpt == [n |-> 0, m |-> 0, X |-> <<>>, F |-> 0, G |-> <<>>,
             XL |-> <<>>, XU |-> <<>>, GL |-> <<>>, GU |-> <<>>]
EmptyWsp == [ScaleObj |-> 0, DF |-> "unset", DG |-> "unset", HM |-> "unset"]
EmptyPar == [Infty |-> 0, UserDF |-> TRUE, UserDG |-> TRUE, UserHM |-> TRUE,
             UserHMstructure |-> TRUE, InitialLMest |-> FALSE]
EmptyCnt == [status |-> 0, flags |-> {}]

\* the values of an unsigned verbosity level
Verbosities == 0..MaxVerbosity

\* an unsigned int member that no constructor and no assignment has written:
\* it holds no value of Verbosities, and what a read of it yields is open
Indeterminate == -1

\* no call of set_verbosity or get_verbosity yet
NoOp == [f |-> "none", n |-> 0, r |-> "none", was |-> Indeterminate]

Threads == 1..NThreads

\* a thread that has not called evolve
IdleThread == [pc |-> "idle", imported |-> 0]

----------------------------------------------------------------------------
(* worhp::evolve, lines 180-204: entry and preamble. *)

\* the state before evolve is called; kept tells whether the requests found at
\* each reading of the loop condition are recorded
InitWith(kept) ==
    /\ pc = "idle"
    /\ prob = [nobj |-> 1, stochastic |-> FALSE, nc |-> 0, nec |-> 0]
    /\ pop_in = <<>>
    /\ pop = <<>>
    /\ err = NoError
    /\ ret = <<>>
    /\ library_load_mutex = FALSE
    /\ libworhp = Closed
    /\ imported = <<>>
    /\ caught = ""
    /\ opt = EmptyOpt
    /\ wsp = EmptyWsp
    /\ par = EmptyPar
    /\ cnt = EmptyCnt
    /\ sel_xf = [x |-> <<>>, f |-> <<>>]
    /\ x_final = <<>>
    /\ f_final = <<>>
    /\ calls = <<NoCall, NoCall>>
    /\ lifecycle = <<>>
    /\ turnPolls = <<>>
    /\ initSaw = [n |-> 0, m |-> 0, DF |-> "unset", DG |-> "unset", HM |-> "unset"]
    /\ replaced = FALSE
    /\ everLocked = FALSE
    /\ everLoaded = FALSE
    /\ access = {}
    /\ constructed = FALSE
    /\ m_screen_output = FALSE
    /\ m_verbosity = Indeterminate
    /\ ops = <<NoOp, NoOp>>
    /\ thread = [t \in Threads |-> IdleThread]
    /\ turnStart = [kept |-> kept, flags |-> {}]

Init == InitWith(FALSE)

InitTurn == InitWith(TRUE)

\* pagmo_throw: the exception leaves evolve
Throw(type, what, cause) ==
    /\ err' = [type |-> type, what |-> what, cause |-> cause]
    /\ pc' = "raised"

\* evolve(population pop): the call, with the population and its problem
evolve ==
    /\ pc = "idle"
    /\ \E p \in Problems :
         /\ p.nec <= p.nc
         /\ prob' = p
         /\ \E q \in Populations(p) :
              /\ pop_in' = q
              /\ pop' = q
    /\ pc' = "check_nobj"
    /\ UNCHANGED <<object, threads, turnStart, err, ret, library_load_mutex, libworhp, imported, caught, opt, wsp,
                   par, cnt, sel_xf, x_final, f_final, calls, lifecycle, turnPolls,
                   initSaw, replaced, everLocked, everLoaded>>
    /\ access' = {}

\* if (prob.get_nobj() != 1u) throw
CheckNobj ==
    /\ pc = "check_nobj"
    /\ IF prob.nobj # 1
         THEN Throw("invalid_argument", "multi-objective", "")
         ELSE pc' = "check_stochastic" /\ UNCHANGED err
    /\ UNCHANGED <<object, threads, turnStart, prob, pop_in, pop, ret, library_load_mutex, libworhp, imported,
                   caught, opt, wsp, par, cnt, sel_xf, x_final, f_final, calls,
                   lifecycle, turnPolls, initSaw, replaced, everLocked, everLoaded>>
    /\ access' = {}

\* if (prob.is_stochastic()) throw
CheckStochastic ==
    /\ pc = "check_stochastic"
    /\ IF prob.stochastic
         THEN Throw("invalid_argument", "stochastic", "")
         ELSE pc' = "check_empty" /\ UNCHANGED err
    /\ UNCHANGED <<object, threads, turnStart, prob, pop_in, pop, ret, library_load_mutex, libworhp, imported,
                   caught, opt, wsp, par, cnt, sel_xf, x_final, f_final, calls,
                   lifecycle, turnPolls, initSaw, replaced, everLocked, everLoaded>>
    /\ access' = {}

\* CheckEmpty with the test left out
CheckEmpty_Omitted ==
    /\ pc = "check_empty"
    /\ pc' = "lock"
    /\ UNCHANGED <<object, threads, turnStart, prob, pop_in, pop, err, ret, library_load_mutex, libworhp, imported,
                   caught, opt, wsp, par, cnt, sel_xf, x_final, f_final, calls,
                   lifecycle, turnPolls, initSaw, replaced, everLocked, everLoaded>>
    /\ access' = {}

\* if (!pop.size()) throw
CheckEmpty ==
    /\ pc = "check_empty"
    /\ IF Len(pop) = 0
         THEN Throw("invalid_argument", "empty population", "")
         ELSE pc' = "lock" /\ UNCHANGED err
    /\ UNCHANGED <<object, threads, turnStart, prob, pop_in, pop, ret, library_load_mutex, libworhp, imported,
                   caught, opt, wsp, par, cnt, sel_xf, x_final, f_final, calls,
                   lifecycle, turnPolls, initSaw, replaced, everLocked, everLoaded>>
    /\ access' = {}

----------------------------------------------------------------------------
(* worhp::evolve, lines 220-298: loading the library inside the try block. *)

\* an exception inside the try block: the lock_guard and the shared_library
\* are destroyed as the block is left, then the catch clause runs
ThrowInTry(what) ==
    /\ caught' = what
    /\ library_load_mutex' = FALSE
    /\ libworhp' = Closed
    /\ pc' = "catch"

\* std::lock_guard<std::mutex> lock(library_load_mutex)
LockMutex ==
    /\ pc = "lock"
    /\ library_load_mutex = FALSE
    /\ library_load_mutex' = TRUE
    /\ everLocked' = TRUE
    /\ pc' = "check_file"
    /\ UNCHANGED <<object, threads, turnStart, prob, pop_in, pop, err, ret, libworhp, imported, caught, opt, wsp,
                   par, cnt, sel_xf, x_final, f_final, calls, lifecycle, turnPolls,
                   initSaw, replaced, everLoaded>>
    /\ access' = {}

\* is_regular_file(path_to_lib), then shared_library libworhp(path_to_lib):
\* what is found at the path is the environment's choice
OpenLibrary ==
    /\ pc = "check_file"
    /\ \E l \in Libraries :
         IF ~l.file
           THEN /\ ThrowInTry("not a file")
                /\ UNCHANGED <<imported, everLoaded>>
           ELSE IF ~l.module
             THEN /\ ThrowInTry("not a shared library")
                  /\ everLoaded' = TRUE
                  /\ UNCHANGED imported
             ELSE /\ libworhp' = l
                  /\ everLoaded' = TRUE
                  /\ pc' = "import"
                  /\ UNCHANGED <<library_load_mutex, imported, caught>>
    /\ UNCHANGED <<object, threads, turnStart, prob, pop_in, pop, err, ret, opt, wsp, par, cnt, sel_xf, x_final,
                   f_final, calls, lifecycle, turnPolls, initSaw, replaced, everLocked>>
    /\ access' = {}

\* boost::dll::import of the next symbol
ImportSymbol ==
    /\ pc = "import"
    /\ Len(imported) < Len(Required)
    /\ LET s == Required[Len(imported) + 1] IN
         IF s \in libworhp.syms
           THEN /\ imported' = Append(imported, s)
                /\ UNCHANGED <<pc, library_load_mutex, libworhp, caught>>
           ELSE /\ ThrowInTry(s)
                /\ UNCHANGED imported
    /\ UNCHANGED <<object, threads, turnStart, prob, pop_in, pop, err, ret, opt, wsp, par, cnt, sel_xf, x_final,
                   f_final, calls, lifecycle, turnPolls, initSaw, replaced, everLocked,
                   everLoaded>>
    /\ access' = {}

\* end of the try block: lock and libworhp go out of scope
EndTry ==
    /\ pc = "import"
    /\ Len(imported) = Len(Required)
    /\ library_load_mutex' = FALSE
    /\ libworhp' = Closed
    /\ pc' = "preinit"
    /\ UNCHANGED <<object, threads, turnStart, prob, pop_in, pop, err, ret, imported, caught, opt, wsp, par, cnt,
                   sel_xf, x_final, f_final, calls, lifecycle, turnPolls, initSaw,
                   replaced, everLocked, everLoaded>>
    /\ access' = {}

\* CatchLoad with a catch clause that does not rethrow
CatchLoad_Swallowed ==
    /\ pc = "catch"
    /\ pc' = "preinit"
    /\ UNCHANGED <<object, threads, turnStart, prob, pop_in, pop, err, ret, library_load_mutex, libworhp, imported,
                   caught, opt, wsp, par, cnt, sel_xf, x_final, f_final, calls,
                   lifecycle, turnPolls, initSaw, replaced, everLocked, everLoaded>>
    /\ access' = {}

\* catch (const std::exception &e): rethrown as std::invalid_argument whose
\* message ends with e.what()
CatchLoad ==
    /\ pc = "catch"
    /\ Throw("invalid_argument", "loading the worhp library", caught)
    /\ UNCHANGED <<object, threads, turnStart, prob, pop_in, pop, ret, library_load_mutex, libworhp, imported,
                   caught, opt, wsp, par, cnt, sel_xf, x_final, f_final, calls,
                   lifecycle, turnPolls, initSaw, replaced, everLocked, everLoaded>>
    /\ access' = {}

----------------------------------------------------------------------------
(* The solver capability and the bookkeeping of the calls made through it. *)

\* cnt.status is terminal at and beyond these two values (worhp.h)
TerminateSuccess == 1
TerminateError == -1

\* the values the solver may leave in cnt.status: an error beyond the error
\* sentinel, a status of a running solver, and the success sentinel itself
StatusVals == {TerminateError - 1, 0, TerminateSuccess}

\* the user actions the driver polls, in the order it polls them
PollOrder == <<"callWorhp", "iterOutput", "evalF", "evalG", "fidif">>

UserActions == {PollOrder[i] : i \in 1..Len(PollOrder)}

\* par.Infty as WorhpPreInit and ReadParams leave it
WorhpInfty == 1000

\* wsp.ScaleObj as WorhpInit leaves it
ScaleObj == 2

\* a read and a write of field fld of record rec by a statement of evolve,
\* UserF or UserG itself; what the solver's entry points do with the records
\* they are handed is not counted
Rd(rec, fld) == [rec |-> rec, field |-> fld, mode |-> "read"]

Wr(rec, fld) == [rec |-> rec, field |-> fld, mode |-> "write"]

\* a call f(a) that returned r: remembered together with the call before it
Called(f, a, r) == calls' = <<calls[2], [f |-> f, a |-> a, r |-> r]>>

LastCall == calls[2]

PrevCall == calls[1]

----------------------------------------------------------------------------
(* worhp::evolve, lines 301-367: setting up the four records. *)

\* WorhpPreInit(&opt, &wsp, &par, &cnt): the records get their empty defaults
CallWorhpPreInit ==
    /\ pc = "preinit"
    /\ opt' = EmptyOpt
    /\ wsp' = [ScaleObj |-> 1, DF |-> "default", DG |-> "default", HM |-> "default"]
    /\ par' = [EmptyPar EXCEPT !.Infty = WorhpInfty]
    /\ cnt' = [status |-> 0, flags |-> {}]
    /\ Called("WorhpPreInit", "", "void")
    /\ lifecycle' = Append(lifecycle, "WorhpPreInit")
    /\ pc' = "readparams"
    /\ UNCHANGED <<object, threads, turnStart, prob, pop_in, pop, err, ret, library_load_mutex, libworhp, imported,
                   caught, sel_xf, x_final, f_final, turnPolls, initSaw, replaced,
                   everLocked, everLoaded>>
    /\ access' = {}

\* ReadParams(&n_xml_param, "param.xml", &par)
CallReadParams ==
    /\ pc = "readparams"
    /\ Called("ReadParams", "", "void")
    /\ lifecycle' = Append(lifecycle, "ReadParams")
    /\ pc' = "dimensions"
    /\ UNCHANGED <<object, threads, turnStart, prob, pop_in, pop, err, ret, library_load_mutex, libworhp, imported,
                   caught, opt, wsp, par, cnt, sel_xf, x_final, f_final, turnPolls,
                   initSaw, replaced, everLocked, everLoaded>>
    /\ access' = {}

\* what lines 318-324 write
DimensionsAccess ==
    {Wr("opt", "n"), Wr("opt", "m"), Wr("wsp", "DF"), Wr("wsp", "DG"), Wr("wsp", "HM")}

\* SetDimensions with the number of equality constraints as opt.m
SetDimensions_EqualityCount ==
    /\ pc = "dimensions"
    /\ opt' = [opt EXCEPT !.n = dim, !.m = prob.nec]
    /\ wsp' = [wsp EXCEPT !.DF = "dense", !.DG = "dense", !.HM = "dense"]
    /\ pc' = "init"
    /\ UNCHANGED <<object, threads, turnStart, prob, pop_in, pop, err, ret, library_load_mutex, libworhp, imported,
                   caught, par, cnt, sel_xf, x_final, f_final, calls, lifecycle,
                   turnPolls, initSaw, replaced, everLocked, everLoaded>>
    /\ access' = DimensionsAccess

\* opt.n = dim; opt.m = prob.get_nc(); wsp.DF.nnz = wsp.DG.nnz = wsp.HM.nnz = dense
SetDimensions ==
    /\ pc = "dimensions"
    /\ opt' = [opt EXCEPT !.n = dim, !.m = prob.nc]
    /\ wsp' = [wsp EXCEPT !.DF = "dense", !.DG = "dense", !.HM = "dense"]
    /\ pc' = "init"
    /\ UNCHANGED <<object, threads, turnStart, prob, pop_in, pop, err, ret, library_load_mutex, libworhp, imported,
                   caught, par, cnt, sel_xf, x_final, f_final, calls, lifecycle,
                   turnPolls, initSaw, replaced, everLocked, everLoaded>>
    /\ access' = DimensionsAccess

\* WorhpInit(&opt, &wsp, &par, &cnt): allocates the vectors for the dimensions
\* it finds, chooses the objective scaling and leaves a status
CallWorhpInit ==
    /\ pc = "init"
    /\ initSaw' = [n |-> opt.n, m |-> opt.m, DF |-> wsp.DF, DG |-> wsp.DG, HM |-> wsp.HM]
    /\ opt' = [opt EXCEPT !.X = [i \in 1..opt.n |-> 0], !.G = [i \in 1..opt.m |-> 0],
                          !.XL = [i \in 1..opt.n |-> 0], !.XU = [i \in 1..opt.n |-> 0],
                          !.GL = [i \in 1..opt.m |-> 0], !.GU = [i \in 1..opt.m |-> 0]]
    /\ wsp' = [wsp EXCEPT !.ScaleObj = ScaleObj]
    /\ \E st \in StatusVals, fl \in SUBSET {"callWorhp"} :
         cnt' = [status |-> st, flags |-> fl]
    /\ Called("WorhpInit", "", "void")
    /\ lifecycle' = Append(lifecycle, "WorhpInit")
    /\ pc' = "initial_values"
    /\ UNCHANGED <<object, threads, turnStart, prob, pop_in, pop, err, ret, library_load_mutex, libworhp, imported,
                   caught, par, sel_xf, x_final, f_final, turnPolls, replaced,
                   everLocked, everLoaded>>
    /\ access' = {}

----------------------------------------------------------------------------
(* pagmo::compare_fc and the selection/replacement policies of               *)
(* pagmo::not_population_based, as evolve uses them.                         *)

Abs(v) == IF v < 0 THEN -v ELSE v

\* by how much fitness f violates constraint i: equality constraints are the
\* first neq ones and hold when |c| <= tol, the others hold when c <= tol
Violation(f, neq, tol, i) ==
    IF i <= neq
      THEN (IF Abs(f[i + 1]) > tol[i] THEN Abs(f[i + 1]) - tol[i] ELSE 0)
      ELSE (IF f[i + 1] > tol[i] THEN f[i + 1] - tol[i] ELSE 0)

\* the number of constraints f satisfies
Satisfied(f, neq, tol) ==
    Cardinality({i \in 1..Len(tol) : Violation(f, neq, tol, i) = 0})

\* the square of the norm of the violations of constraints 1..k
RECURSIVE Norm2(_, _, _, _)
Norm2(f, neq, tol, k) ==
    IF k = 0 THEN 0
    ELSE Violation(f, neq, tol, k) * Violation(f, neq, tol, k) + Norm2(f, neq, tol, k - 1)

\* compare_fc(f1, f2, neq, tol): f1 is better than f2 when it satisfies more
\* constraints, or as many with a smaller violation, or as many with the same
\* violation and a smaller objective
compare_fc(f1, f2, neq, tol) ==
    LET n1 == Satisfied(f1, neq, tol)
        n2 == Satisfied(f2, neq, tol)
        l1 == Norm2(f1, neq, tol, Len(tol))
        l2 == Norm2(f2, neq, tol, Len(tol))
    IN  IF n1 = n2
          THEN (IF l1 = l2 THEN f1[1] < f2[1] ELSE l1 < l2)
          ELSE n1 > n2

\* m_select and m_replace: an index, or one of the named policies
Policies == {"best", "worst", "random"}

Choices == {[tag |-> "index", idx |-> k, name |-> ""] : k \in 0..MaxPop}
           \cup {[tag |-> "policy", idx |-> 0, name |-> n] : n \in Policies}

\* the individuals of q (counted from 1) that choice c may denote; none when
\* the index is out of range
Picked(c, q, p) ==
    IF c.tag = "index"
      THEN (IF c.idx < Len(q) THEN {c.idx + 1} ELSE {})
      ELSE IF c.name = "best"
        THEN {i \in 1..Len(q) :
                \A j \in 1..Len(q) : ~compare_fc(q[j].f, q[i].f, p.nec, c_tol(p))}
      ELSE IF c.name = "worst"
        THEN {i \in 1..Len(q) :
                \A j \in 1..Len(q) : ~compare_fc(q[i].f, q[j].f, p.nec, c_tol(p))}
      ELSE 1..Len(q)

----------------------------------------------------------------------------
(* worhp::evolve, lines 329-367: initial values and bounds. *)

\* what lines 331-336 write
FlagsAccess ==
    {Wr("par", "UserDF"), Wr("par", "UserDG"), Wr("par", "UserHM"),
     Wr("par", "UserHMstructure"), Wr("par", "InitialLMest")}

\* what the seeding of lines 341-347 reads and writes
SeedAccess ==
    {Rd("opt", "n"), Wr("opt", "X"), Rd("wsp", "ScaleObj"), Wr("opt", "F"),
     Rd("opt", "m")}
    \cup (IF opt.m > 0 THEN {Wr("opt", "G")} ELSE {})

\* par.UserDF = ... = false; par.InitialLMest = true; select_individual(pop);
\* opt.X, opt.F and opt.G are seeded from the selected individual
SetInitialValues ==
    /\ pc = "initial_values"
    /\ par' = [par EXCEPT !.UserDF = FALSE, !.UserDG = FALSE, !.UserHM = FALSE,
                          !.UserHMstructure = FALSE, !.InitialLMest = TRUE]
    /\ \E c \in Choices :
         IF Picked(c, pop, prob) = {}
           THEN /\ Throw("out_of_range", "select_individual", "")
                /\ access' = FlagsAccess
                /\ UNCHANGED <<opt, sel_xf>>
           ELSE \E i \in Picked(c, pop, prob) :
                  LET x0 == pop[i].x
                      f0 == pop[i].f
                  IN  /\ sel_xf' = [x |-> x0, f |-> f0]
                      /\ opt' = [opt EXCEPT !.X = [j \in 1..opt.n |-> x0[j]],
                                            !.F = wsp.ScaleObj * f0[1],
                                            !.G = [j \in 1..opt.m |-> f0[j + 1]]]
                      /\ access' = FlagsAccess \cup SeedAccess
                      /\ pc' = "bounds"
                      /\ UNCHANGED err
    /\ UNCHANGED <<object, threads, turnStart, prob, pop_in, pop, ret, library_load_mutex, libworhp, imported,
                   caught, wsp, cnt, x_final, f_final, calls, lifecycle, turnPolls,
                   initSaw, replaced, everLocked, everLoaded>>

\* what the three loops of lines 351-367 read and write: the inequality loop
\* reads par.Infty in each of its rounds
BoundsAccess ==
    {Rd("opt", "n"), Wr("opt", "XL"), Wr("opt", "XU"), Rd("opt", "m")}
    \cup (IF prob.nec > 0 \/ opt.m > prob.nec
            THEN {Wr("opt", "GL"), Wr("opt", "GU")} ELSE {})
    \cup (IF opt.m > prob.nec THEN {Rd("par", "Infty")} ELSE {})

\* SetBounds with the inequality loop starting at 0 instead of n_eq
SetBounds_IneqFromZero ==
    /\ pc = "bounds"
    /\ opt' = [opt EXCEPT !.XL = [i \in 1..opt.n |-> lb[i]],
                          !.XU = [i \in 1..opt.n |-> ub[i]],
                          !.GL = [i \in 1..opt.m |-> -par.Infty],
                          !.GU = [i \in 1..opt.m |-> 0]]
    /\ pc' = "loop_test"
    /\ UNCHANGED <<object, threads, turnStart, prob, pop_in, pop, err, ret, library_load_mutex, libworhp, imported,
                   caught, wsp, par, cnt, sel_xf, x_final, f_final, calls, lifecycle,
                   turnPolls, initSaw, replaced, everLocked, everLoaded>>
    /\ access' = BoundsAccess

\* the box bounds, then [0, 0] for the equality constraints and
\* [-par.Infty, 0] for the inequality constraints
SetBounds ==
    /\ pc = "bounds"
    /\ opt' = [opt EXCEPT !.XL = [i \in 1..opt.n |-> lb[i]],
                          !.XU = [i \in 1..opt.n |-> ub[i]],
                          !.GL = [i \in 1..opt.m |->
                                    IF i <= prob.nec THEN 0 ELSE -par.Infty],
                          !.GU = [i \in 1..opt.m |-> 0]]
    /\ pc' = "loop_test"
    /\ UNCHANGED <<object, threads, turnStart, prob, pop_in, pop, err, ret, library_load_mutex, libworhp, imported,
                   caught, wsp, par, cnt, sel_xf, x_final, f_final, calls, lifecycle,
                   turnPolls, initSaw, replaced, everLocked, everLoaded>>
    /\ access' = BoundsAccess

----------------------------------------------------------------------------
(* worhp::evolve, lines 378-429: the reverse communication loop. *)

\* what the loop leaves alone
LoopFrame ==
    UNCHANGED <<object, threads, prob, pop_in, pop, ret, library_load_mutex, libworhp, imported, caught,
                wsp, par, sel_xf, x_final, f_final, lifecycle, initSaw, replaced,
                everLocked, everLoaded>>

\* while (cnt.status < TerminateSuccess && cnt.status > TerminateError)
Running == cnt.status < TerminateSuccess /\ cnt.status > TerminateError

\* LoopTest with the comparison against TerminateError left out
LoopTest_SuccessOnly ==
    /\ pc = "loop_test"
    /\ IF cnt.status < TerminateSuccess
         THEN pc' = "poll_callWorhp" /\ turnPolls' = <<>>
         ELSE pc' = "final" /\ UNCHANGED turnPolls
    /\ UNCHANGED <<err, opt, cnt, calls>>
    /\ LoopFrame
    /\ turnStart' = IF turnStart.kept THEN [turnStart EXCEPT !.flags = cnt.flags]
                                       ELSE turnStart
    /\ access' = {Rd("cnt", "status")}

\* LoopTest leaving the loop also when the solver requests nothing
LoopTest_ExitWhenIdle ==
    /\ pc = "loop_test"
    /\ IF Running /\ cnt.flags # {}
         THEN pc' = "poll_callWorhp" /\ turnPolls' = <<>>
         ELSE pc' = "final" /\ UNCHANGED turnPolls
    /\ UNCHANGED <<err, opt, cnt, calls>>
    /\ LoopFrame
    /\ turnStart' = IF turnStart.kept THEN [turnStart EXCEPT !.flags = cnt.flags]
                                       ELSE turnStart
    /\ access' = {Rd("cnt", "status")}

LoopTest ==
    /\ pc = "loop_test"
    /\ IF Running
         THEN pc' = "poll_callWorhp" /\ turnPolls' = <<>>
         ELSE pc' = "final" /\ UNCHANGED turnPolls
    /\ UNCHANGED <<err, opt, cnt, calls>>
    /\ LoopFrame
    /\ turnStart' = IF turnStart.kept THEN [turnStart EXCEPT !.flags = cnt.flags]
                                       ELSE turnStart
    /\ access' = {Rd("cnt", "status")}

\* Poll deciding on the requests as they were when the loop condition was read
Poll_Snapshot(here, a, act, next) ==
    /\ pc = here
    /\ Called("GetUserAction", a, IF a \in cnt.flags THEN "true" ELSE "false")
    /\ turnPolls' = Append(turnPolls, a)
    /\ pc' = IF a \in turnStart.flags THEN act ELSE next
    /\ UNCHANGED <<err, opt, cnt>>
    /\ LoopFrame
    /\ UNCHANGED turnStart
    /\ access' = {}

\* if (GetUserAction(&cnt, a)): the flag is read, not changed
Poll(here, a, act, next) ==
    /\ pc = here
    /\ Called("GetUserAction", a, IF a \in cnt.flags THEN "true" ELSE "false")
    /\ turnPolls' = Append(turnPolls, a)
    /\ pc' = IF a \in cnt.flags THEN act ELSE next
    /\ UNCHANGED <<err, opt, cnt>>
    /\ LoopFrame
    /\ UNCHANGED turnStart
    /\ access' = {}

\* DoneUserAction(&cnt, a): the solver withdraws request a; which other
\* requests it raises with that is its own business
Acknowledge(here, a, next) ==
    /\ pc = here
    /\ \E raised \in SUBSET (UserActions \ {a}) :
         cnt' = [cnt EXCEPT !.flags = (cnt.flags \ {a}) \cup raised]
    /\ Called("DoneUserAction", a, "true")
    /\ pc' = next
    /\ UNCHANGED <<err, opt, turnPolls>>
    /\ LoopFrame
    /\ UNCHANGED turnStart
    /\ access' = {}

\* a solver routine working on the four records: it may move the decision
\* vector, change the status and raise or withdraw any request
SolverRoutine(here, name, next) ==
    /\ pc = here
    /\ \E st \in StatusVals, fl \in SUBSET UserActions, x \in XVecs :
         /\ cnt' = [status |-> st, flags |-> fl]
         /\ opt' = [opt EXCEPT !.X = x]
    /\ Called(name, "", "void")
    /\ pc' = next
    /\ UNCHANGED <<err, turnPolls>>
    /\ LoopFrame
    /\ UNCHANGED turnStart
    /\ access' = {}

PollCallWorhp == Poll("poll_callWorhp", "callWorhp", "Worhp", "poll_iterOutput")

\* Worhp(&opt, &wsp, &par, &cnt); no DoneUserAction
CallWorhp == SolverRoutine("Worhp", "Worhp", "poll_iterOutput")

PollIterOutput == Poll("poll_iterOutput", "iterOutput", "IterationOutput", "poll_evalF")

\* IterationOutput(&opt, &wsp, &par, &cnt): prints the iteration
CallIterationOutput ==
    /\ pc = "IterationOutput"
    /\ Called("IterationOutput", "", "void")
    /\ pc' = "done_iterOutput"
    /\ UNCHANGED <<err, opt, cnt, turnPolls>>
    /\ LoopFrame
    /\ UNCHANGED turnStart
    /\ access' = {}

DoneIterOutput == Acknowledge("done_iterOutput", "iterOutput", "poll_evalF")

PollEvalF == Poll("poll_evalF", "evalF", "UserF", "poll_evalG")

\* UserF with the host's exception caught and dropped
UserF_Caught ==
    /\ pc = "UserF"
    /\ \/ /\ opt' = [opt EXCEPT !.F = wsp.ScaleObj * fitness(prob, opt.X)[1]]
          /\ Called("UserF", "", "void")
          /\ access' = {Rd("opt", "X"), Rd("wsp", "ScaleObj"), Wr("opt", "F")}
       \/ /\ Called("UserF", "", "raised")
          /\ access' = {Rd("opt", "X")}
          /\ UNCHANGED opt
    /\ pc' = "done_evalF"
    /\ UNCHANGED <<err, cnt, turnPolls>>
    /\ LoopFrame
    /\ UNCHANGED turnStart

\* UserF without the scaling of the objective
UserF_Unscaled ==
    /\ pc = "UserF"
    /\ \/ /\ opt' = [opt EXCEPT !.F = fitness(prob, opt.X)[1]]
          /\ Called("UserF", "", "void")
          /\ access' = {Rd("opt", "X"), Rd("wsp", "ScaleObj"), Wr("opt", "F")}
          /\ pc' = "done_evalF"
          /\ UNCHANGED err
       \/ /\ Throw("host", "fitness", "UserF")
          /\ Called("UserF", "", "raised")
          /\ access' = {Rd("opt", "X")}
          /\ UNCHANGED opt
    /\ UNCHANGED <<cnt, turnPolls>>
    /\ LoopFrame
    /\ UNCHANGED turnStart

\* worhp::UserF, lines 580-588: opt->F = wsp->ScaleObj * prob.fitness(x)[0];
\* the host's fitness may throw
UserF ==
    /\ pc = "UserF"
    /\ \/ /\ opt' = [opt EXCEPT !.F = wsp.ScaleObj * fitness(prob, opt.X)[1]]
          /\ Called("UserF", "", "void")
          /\ access' = {Rd("opt", "X"), Rd("wsp", "ScaleObj"), Wr("opt", "F")}
          /\ pc' = "done_evalF"
          /\ UNCHANGED err
       \/ /\ Throw("host", "fitness", "UserF")
          /\ Called("UserF", "", "raised")
          /\ access' = {Rd("opt", "X")}
          /\ UNCHANGED opt
    /\ UNCHANGED <<cnt, turnPolls>>
    /\ LoopFrame
    /\ UNCHANGED turnStart

DoneEvalF == Acknowledge("done_evalF", "evalF", "poll_evalG")

\* PollEvalG with the finite-difference block nested in the evalG block, so
\* that fidif is polled only when evalG was requested
PollEvalG_NestedFidif == Poll("poll_evalG", "evalG", "UserG", "loop_test")

PollEvalG == Poll("poll_evalG", "evalG", "UserG", "poll_fidif")

\* UserG copying f[i] instead of f[i + 1]
UserG_ShiftedIndex ==
    /\ pc = "UserG"
    /\ \/ /\ opt' = [opt EXCEPT !.G = [i \in 1..prob.nc |-> fitness(prob, opt.X)[i]]]
          /\ Called("UserG", "", "void")
          /\ access' = {Rd("opt", "X")} \cup (IF prob.nc > 0 THEN {Wr("opt", "G")} ELSE {})
          /\ pc' = "done_evalG"
          /\ UNCHANGED err
       \/ /\ Throw("host", "fitness", "UserG")
          /\ Called("UserG", "", "raised")
          /\ access' = {Rd("opt", "X")}
          /\ UNCHANGED opt
    /\ UNCHANGED <<cnt, turnPolls>>
    /\ LoopFrame
    /\ UNCHANGED turnStart

\* worhp::UserG, lines 590-600: opt->G[i] = prob.fitness(x)[i + 1] for i < nc
UserG ==
    /\ pc = "UserG"
    /\ \/ /\ opt' = [opt EXCEPT !.G = [i \in 1..prob.nc |-> fitness(prob, opt.X)[i + 1]]]
          /\ Called("UserG", "", "void")
          /\ access' = {Rd("opt", "X")} \cup (IF prob.nc > 0 THEN {Wr("opt", "G")} ELSE {})
          /\ pc' = "done_evalG"
          /\ UNCHANGED err
       \/ /\ Throw("host", "fitness", "UserG")
          /\ Called("UserG", "", "raised")
          /\ access' = {Rd("opt", "X")}
          /\ UNCHANGED opt
    /\ UNCHANGED <<cnt, turnPolls>>
    /\ LoopFrame
    /\ UNCHANGED turnStart

\* DoneEvalG with the action code of the block above it
DoneEvalG_WrongCode == Acknowledge("done_evalG", "evalF", "poll_fidif")

DoneEvalG == Acknowledge("done_evalG", "evalG", "poll_fidif")

PollFidif == Poll("poll_fidif", "fidif", "WorhpFidif", "loop_test")

\* WorhpFidif(&opt, &wsp, &par, &cnt); no DoneUserAction
CallWorhpFidif == SolverRoutine("WorhpFidif", "WorhpFidif", "loop_test")

----------------------------------------------------------------------------
(* worhp::evolve, lines 431-447: re-insertion, tear-down and return. *)

\* FinalEvaluate taking the candidate's fitness from opt.F and opt.G instead of
\* evaluating it again
FinalEvaluate_FromRecord ==
    /\ pc = "final"
    /\ x_final' = [i \in 1..dim |-> opt.X[i]]
    /\ \/ /\ f_final' = <<opt.F>> \o opt.G
          /\ pc' = "compare"
          /\ UNCHANGED err
       \/ /\ Throw("host", "fitness", "final")
          /\ UNCHANGED f_final
    /\ UNCHANGED <<object, threads, turnStart, prob, pop_in, pop, ret, library_load_mutex, libworhp, imported,
                   caught, opt, wsp, par, cnt, sel_xf, calls, lifecycle, turnPolls,
                   initSaw, replaced, everLocked, everLoaded>>
    /\ access' = {Rd("opt", "n"), Rd("opt", "X"), Rd("opt", "F"), Rd("opt", "G")}

\* x_final is read from opt.X and f_final = prob.fitness(x_final), unscaled
FinalEvaluate ==
    /\ pc = "final"
    /\ x_final' = [i \in 1..dim |-> opt.X[i]]
    /\ \/ /\ f_final' = fitness(prob, x_final')
          /\ pc' = "compare"
          /\ UNCHANGED err
       \/ /\ Throw("host", "fitness", "final")
          /\ UNCHANGED f_final
    /\ UNCHANGED <<object, threads, turnStart, prob, pop_in, pop, ret, library_load_mutex, libworhp, imported,
                   caught, opt, wsp, par, cnt, sel_xf, calls, lifecycle, turnPolls,
                   initSaw, replaced, everLocked, everLoaded>>
    /\ access' = {Rd("opt", "n"), Rd("opt", "X")}

\* CompareAndReplace with the arguments of compare_fc exchanged
CompareAndReplace_Exchanged ==
    /\ pc = "compare"
    /\ IF compare_fc(sel_xf.f, f_final, prob.nec, c_tol(prob))
         THEN /\ replaced' = TRUE
              /\ \E c \in Choices :
                   IF Picked(c, pop, prob) = {}
                     THEN /\ Throw("out_of_range", "replace_individual", "")
                          /\ UNCHANGED pop
                     ELSE \E i \in Picked(c, pop, prob) :
                            /\ pop' = [pop EXCEPT ![i] = [x |-> x_final, f |-> f_final]]
                            /\ pc' = "statusmsg"
                            /\ UNCHANGED err
         ELSE /\ pc' = "statusmsg"
              /\ UNCHANGED <<pop, err, replaced>>
    /\ UNCHANGED <<object, threads, turnStart, prob, pop_in, ret, library_load_mutex, libworhp, imported, caught,
                   opt, wsp, par, cnt, sel_xf, x_final, f_final, calls, lifecycle,
                   turnPolls, initSaw, everLocked, everLoaded>>
    /\ access' = {}

\* CompareAndReplace with the candidate appended (push_back) instead of written
\* over the chosen individual
CompareAndReplace_PushBack ==
    /\ pc = "compare"
    /\ IF compare_fc(f_final, sel_xf.f, prob.nec, c_tol(prob))
         THEN /\ replaced' = TRUE
              /\ \E c \in Choices :
                   IF Picked(c, pop, prob) = {}
                     THEN /\ Throw("out_of_range", "replace_individual", "")
                          /\ UNCHANGED pop
                     ELSE \E i \in Picked(c, pop, prob) :
                            /\ pop' = Append(pop, [x |-> x_final, f |-> f_final])
                            /\ pc' = "statusmsg"
                            /\ UNCHANGED err
         ELSE /\ pc' = "statusmsg"
              /\ UNCHANGED <<pop, err, replaced>>
    /\ UNCHANGED <<object, threads, turnStart, prob, pop_in, ret, library_load_mutex, libworhp, imported, caught,
                   opt, wsp, par, cnt, sel_xf, x_final, f_final, calls, lifecycle,
                   turnPolls, initSaw, everLocked, everLoaded>>
    /\ access' = {}

\* CompareAndReplace replacing unless f0 is the better of the two
CompareAndReplace_NotWorse ==
    /\ pc = "compare"
    /\ IF ~compare_fc(sel_xf.f, f_final, prob.nec, c_tol(prob))
         THEN /\ replaced' = TRUE
              /\ \E c \in Choices :
                   IF Picked(c, pop, prob) = {}
                     THEN /\ Throw("out_of_range", "replace_individual", "")
                          /\ UNCHANGED pop
                     ELSE \E i \in Picked(c, pop, prob) :
                            /\ pop' = [pop EXCEPT ![i] = [x |-> x_final, f |-> f_final]]
                            /\ pc' = "statusmsg"
                            /\ UNCHANGED err
         ELSE /\ pc' = "statusmsg"
              /\ UNCHANGED <<pop, err, replaced>>
    /\ UNCHANGED <<object, threads, turnStart, prob, pop_in, ret, library_load_mutex, libworhp, imported, caught,
                   opt, wsp, par, cnt, sel_xf, x_final, f_final, calls, lifecycle,
                   turnPolls, initSaw, everLocked, everLoaded>>
    /\ access' = {}

\* if (compare_fc(f_final, f0, nec, c_tol)) replace_individual(pop, x_final, f_final)
CompareAndReplace ==
    /\ pc = "compare"
    /\ IF compare_fc(f_final, sel_xf.f, prob.nec, c_tol(prob))
         THEN /\ replaced' = TRUE
              /\ \E c \in Choices :
                   IF Picked(c, pop, prob) = {}
                     THEN /\ Throw("out_of_range", "replace_individual", "")
                          /\ UNCHANGED pop
                     ELSE \E i \in Picked(c, pop, prob) :
                            /\ pop' = [pop EXCEPT ![i] = [x |-> x_final, f |-> f_final]]
                            /\ pc' = "statusmsg"
                            /\ UNCHANGED err
         ELSE /\ pc' = "statusmsg"
              /\ UNCHANGED <<pop, err, replaced>>
    /\ UNCHANGED <<object, threads, turnStart, prob, pop_in, ret, library_load_mutex, libworhp, imported, caught,
                   opt, wsp, par, cnt, sel_xf, x_final, f_final, calls, lifecycle,
                   turnPolls, initSaw, everLocked, everLoaded>>
    /\ access' = {}

\* a tear-down entry point
TearDown(here, name, next) ==
    /\ pc = here
    /\ Called(name, "", "void")
    /\ lifecycle' = Append(lifecycle, name)
    /\ pc' = next
    /\ UNCHANGED <<object, threads, turnStart, prob, pop_in, pop, err, ret, library_load_mutex, libworhp, imported,
                   caught, opt, wsp, par, cnt, sel_xf, x_final, f_final, turnPolls,
                   initSaw, replaced, everLocked, everLoaded>>
    /\ access' = {}

\* StatusMsg(&opt, &wsp, &par, &cnt)
CallStatusMsg == TearDown("statusmsg", "StatusMsg", "free")

\* CallWorhpFree with the call left out
CallWorhpFree_Forgotten ==
    /\ pc = "free"
    /\ pc' = "return"
    /\ UNCHANGED <<object, threads, turnStart, prob, pop_in, pop, err, ret, library_load_mutex, libworhp, imported,
                   caught, opt, wsp, par, cnt, sel_xf, x_final, f_final, calls,
                   lifecycle, turnPolls, initSaw, replaced, everLocked, everLoaded>>
    /\ access' = {}

\* WorhpFree(&opt, &wsp, &par, &cnt)
CallWorhpFree == TearDown("free", "WorhpFree", "return")

\* return pop
Return ==
    /\ pc = "return"
    /\ ret' = pop
    /\ pc' = "returned"
    /\ UNCHANGED <<object, threads, turnStart, prob, pop_in, pop, err, library_load_mutex, libworhp, imported,
                   caught, opt, wsp, par, cnt, sel_xf, x_final, f_final, calls,
                   lifecycle, turnPolls, initSaw, replaced, everLocked, everLoaded>>
    /\ access' = {}

----------------------------------------------------------------------------
\* the statements of evolve after its entry
Steps ==
    \/ CheckNobj
    \/ CheckStochastic
    \/ CheckEmpty
    \/ LockMutex
    \/ OpenLibrary
    \/ ImportSymbol
    \/ EndTry
    \/ CatchLoad
    \/ CallWorhpPreInit
    \/ CallReadParams
    \/ SetDimensions
    \/ CallWorhpInit
    \/ SetInitialValues
    \/ SetBounds
    \/ LoopTest
    \/ PollCallWorhp
    \/ CallWorhp
    \/ PollIterOutput
    \/ CallIterationOutput
    \/ DoneIterOutput
    \/ PollEvalF
    \/ UserF
    \/ DoneEvalF
    \/ PollEvalG
    \/ UserG
    \/ DoneEvalG
    \/ PollFidif
    \/ CallWorhpFidif
    \/ FinalEvaluate
    \/ CompareAndReplace
    \/ CallStatusMsg
    \/ CallWorhpFree
    \/ Return

Next ==
    \/ evolve
    \/ Steps

Spec == Init /\ [][Next]_vars

\* evolve handed a population of at most MaxPopFair individuals of a problem
\* of at most MaxMFair constraints
evolveFair ==
    /\ evolve
    /\ Len(pop') <= MaxPopFair
    /\ prob'.nc <= MaxMFair

NextFair ==
    \/ evolveFair
    \/ Steps

\* evolve is one sequential piece of code whose every call returns or raises:
\* the statement it has reached is executed
SpecFair == Init /\ [][NextFair]_vars /\ WF_vars(NextFair)

\* the same calls, with the requests found at each reading of the loop
\* condition recorded in turnStart
SpecTurn == InitTurn /\ [][NextFair]_vars

----------------------------------------------------------------------------
(* The worhp object: its constructor (lines 145-146) and the verbosity      *)
(* accessors (lines 496-504 and 520-523).                                   *)

\* a call f that was given or that returned n and ended as r, remembered
\* with the call before it and with m_verbosity as the call found it
Did(f, n, r) == ops' = <<ops[2], [f |-> f, n |-> n, r |-> r, was |-> m_verbosity]>>

LastOp == ops[2]

PrevOp == ops[1]

\* worhp(bool screen_output, std::string worhp_library): the initialiser list
\* names m_worhp_library and m_screen_output and leaves m_verbosity out
worhp ==
    /\ ~constructed
    /\ constructed' = TRUE
    /\ \E screen_output \in BOOLEAN : m_screen_output' = screen_output
    /\ UNCHANGED <<m_verbosity, ops>>
    /\ UNCHANGED <<call, library_load_mutex, threads>>

\* set_verbosity that stores n whatever m_screen_output is
set_verbosity_Unguarded ==
    /\ constructed
    /\ \E n \in Verbosities :
         /\ m_verbosity' = n
         /\ Did("set_verbosity", n, "ok")
    /\ UNCHANGED <<constructed, m_screen_output>>
    /\ UNCHANGED <<call, library_load_mutex, threads>>

\* void set_verbosity(unsigned n)
set_verbosity ==
    /\ constructed
    /\ \E n \in Verbosities :
         IF m_screen_output /\ n # 0
           THEN /\ Did("set_verbosity", n, "raised")
                /\ UNCHANGED m_verbosity
           ELSE /\ m_verbosity' = n
                /\ Did("set_verbosity", n, "ok")
    /\ UNCHANGED <<constructed, m_screen_output>>
    /\ UNCHANGED <<call, library_load_mutex, threads>>

\* unsigned int get_verbosity() const: return m_verbosity; the read of a
\* member that was never written may yield any value
get_verbosity ==
    /\ constructed
    /\ \E v \in Verbosities :
         /\ m_verbosity # Indeterminate => v = m_verbosity
         /\ Did("get_verbosity", v, "ok")
    /\ UNCHANGED <<constructed, m_screen_output, m_verbosity>>
    /\ UNCHANGED <<call, library_load_mutex, threads>>

NextObject ==
    \/ worhp
    \/ set_verbosity
    \/ get_verbosity

SpecObject == Init /\ [][NextObject]_vars

----------------------------------------------------------------------------
(* evolve called on several threads of one process. Each call is followed   *)
(* from statement to statement where the mutex and the library are          *)
(* concerned (lines 220-298) and from solver call to solver call after      *)
(* that (lines 301-447); what the calls share is library_load_mutex.        *)

\* thread t moves on to position p; when evolve is left, by return or by
\* exception, its std::function objects are destroyed with its frame
Goto(t, p) ==
    thread' = [thread EXCEPT ![t] = [pc |-> p,
                                     imported |-> IF p \in {"raised", "returned"}
                                                    THEN 0 ELSE @.imported]]

\* the try block of thread t is left by an exception: its lock_guard and its
\* shared_library are destroyed before the catch clause runs
ThreadThrowInTry(t) ==
    /\ Goto(t, "catch")
    /\ library_load_mutex' = FALSE

\* lines 180-204: the call and its preamble, which throws or goes on
ThreadEvolve(t) ==
    /\ thread[t].pc = "idle"
    /\ \E p \in {"lock", "raised"} : Goto(t, p)
    /\ UNCHANGED <<call, library_load_mutex, object>>

\* line 223: std::lock_guard<std::mutex> lock(library_load_mutex) blocks
\* until the mutex is free
ThreadLockMutex(t) ==
    /\ thread[t].pc = "lock"
    /\ library_load_mutex = FALSE
    /\ library_load_mutex' = TRUE
    /\ Goto(t, "check_file")
    /\ UNCHANGED <<call, object>>

\* lines 225-229: is_regular_file, then the shared_library is constructed;
\* either may throw
ThreadOpenLibrary(t) ==
    /\ thread[t].pc = "check_file"
    /\ \/ Goto(t, "import") /\ UNCHANGED library_load_mutex
       \/ ThreadThrowInTry(t)
    /\ UNCHANGED <<call, object>>

\* lines 231-280: boost::dll::import of the next symbol, which the library
\* exports or not
ThreadImportSymbol(t) ==
    /\ thread[t].pc = "import"
    /\ thread[t].imported < Len(Required)
    /\ \/ /\ thread' = [thread EXCEPT ![t].imported = @ + 1]
          /\ UNCHANGED library_load_mutex
       \/ ThreadThrowInTry(t)
    /\ UNCHANGED <<call, object>>

\* ThreadEndTry with a lock that outlives the try block
ThreadEndTry_LockKept(t) ==
    /\ thread[t].pc = "import"
    /\ thread[t].imported = Len(Required)
    /\ Goto(t, "preinit")
    /\ UNCHANGED <<call, library_load_mutex, object>>

\* line 281: the closing brace of the try block destroys lock and libworhp
ThreadEndTry(t) ==
    /\ thread[t].pc = "import"
    /\ thread[t].imported = Len(Required)
    /\ Goto(t, "preinit")
    /\ library_load_mutex' = FALSE
    /\ UNCHANGED <<call, object>>

\* lines 281-298: the catch clause rethrows
ThreadCatchLoad(t) ==
    /\ thread[t].pc = "catch"
    /\ Goto(t, "raised")
    /\ UNCHANGED <<call, library_load_mutex, object>>

\* the positions of a thread after the try block, each named after the
\* solver call or the statement that comes next, and what may follow each:
\* the next position, or "raised" where the statement may throw
Following(p) ==
    CASE p = "preinit" -> {"readparams"}
      [] p = "readparams" -> {"init"}
      [] p = "init" -> {"initial_values"}
      [] p = "initial_values" -> {"loop_test", "raised"}
      [] p = "loop_test" -> {"turn", "final"}
      [] p = "turn" -> {"loop_test", "raised"}
      [] p = "final" -> {"statusmsg", "raised"}
      [] p = "statusmsg" -> {"free"}
      [] p = "free" -> {"return"}
      [] p = "return" -> {"returned"}
      [] OTHER -> {}

\* lines 301-447: thread t makes the call or executes the statement it is at
ThreadStep(t) ==
    /\ \E p \in Following(thread[t].pc) : Goto(t, p)
    /\ UNCHANGED <<call, library_load_mutex, object>>

ThreadNext(t) ==
    \/ ThreadEvolve(t)
    \/ ThreadLockMutex(t)
    \/ ThreadOpenLibrary(t)
    \/ ThreadImportSymbol(t)
    \/ ThreadEndTry(t)
    \/ ThreadCatchLoad(t)
    \/ ThreadStep(t)

NextThreads == \E t \in Threads : ThreadNext(t)

\* every thread that can take a step is scheduled in the end
SpecThreads ==
    Init /\ [][NextThreads]_vars /\ \A t \in Threads : WF_vars(ThreadNext(t))

\* thread t is inside the try block, holding the lock_guard
InAcquisition(t) == thread[t].pc \in {"check_file", "import"}

\* thread t has called WorhpPreInit and its WorhpFree has not returned
InSolver(t) ==
    thread[t].pc \in {"readparams", "init", "initial_values", "loop_test", "turn",
                      "final", "statusmsg", "free"}

----------------------------------------------------------------------------
(* Positions of evolve, grouped. *)

InTurn == {"poll_callWorhp", "Worhp", "poll_iterOutput", "IterationOutput",
           "done_iterOutput", "poll_evalF", "UserF", "done_evalF", "poll_evalG",
           "UserG", "done_evalG", "poll_fidif", "WorhpFidif"}

AfterLoop == {"final", "compare", "statusmsg", "free", "return", "returned"}

\* evolve has ended, by return or by exception
Ended == pc \in {"returned", "raised"}

\* the exception came from the host problem's fitness inside the loop
RaisedInTurn == pc = "raised" /\ err.type = "host" /\ err.cause \in {"UserF", "UserG"}

\* the exception came after WorhpInit had returned
RaisedAfterInit == pc = "raised" /\ err.type \in {"out_of_range", "host"}

\* the exception came after the bounds had been set
RaisedAfterBounds ==
    pc = "raised" /\ (err.type = "host" \/ err.what = "replace_individual")

IsSetUp(c) == c \in {"WorhpPreInit", "WorhpInit"}

IsTearDown(c) == c \in {"StatusMsg", "WorhpFree"}

\* the action codes DoneUserAction is meant for, and the routine serving each
Acknowledged == {"iterOutput", "evalF", "evalG"}

RoutineOf(a) ==
    CASE a = "callWorhp" -> "Worhp"
      [] a = "iterOutput" -> "IterationOutput"
      [] a = "evalF" -> "UserF"
      [] a = "evalG" -> "UserG"
      [] a = "fidif" -> "WorhpFidif"

AckPosition(a) ==
    CASE a = "iterOutput" -> "done_iterOutput"
      [] a = "evalF" -> "done_evalF"
      [] a = "evalG" -> "done_evalG"

IsPrefix(s, t) == Len(s) <= Len(t) /\ \A i \in 1..Len(s) : s[i] = t[i]

----------------------------------------------------------------------------
(* The claims. *)

\* C1: DoneUserAction is called exactly once for each request among
\* iterOutput, evalF and evalG that the driver observed and served: the call
\* before a DoneUserAction(a) is the routine serving a, returned normally; the
\* call after a served request is DoneUserAction with the same code and
\* nothing else; and DoneUserAction is never given callWorhp or fidif.
C1_AcknowledgeOncePerService ==
    /\ LastCall.f = "DoneUserAction" =>
         /\ LastCall.a \in Acknowledged
         /\ PrevCall = [f |-> RoutineOf(LastCall.a), a |-> "", r |-> "void"]
    /\ \A a \in Acknowledged :
         /\ (PrevCall.f = RoutineOf(a) /\ PrevCall.r = "void") =>
              LastCall = [f |-> "DoneUserAction", a |-> a, r |-> "true"]
         /\ (LastCall.f = RoutineOf(a) /\ LastCall.r = "void") =>
              /\ pc = AckPosition(a)
              /\ PrevCall = [f |-> "GetUserAction", a |-> a, r |-> "true"]

C1_Witness ==
    /\ LastCall = [f |-> "DoneUserAction", a |-> "evalG", r |-> "true"]
    /\ PrevCall.f = "UserG"
    /\ pc = "poll_fidif"

\* what C2 says of the order of the polls and of the actions between them:
\* the polls of a turn follow PollOrder, a routine is called only right after
\* the poll of its flag returned true, and right after every such poll, and
\* with a call about flag number i exactly the first i flags have been polled
C2_OrderWithinTurn ==
    /\ IsPrefix(turnPolls, PollOrder)
    /\ \A i \in 1..Len(PollOrder) :
         LET a == PollOrder[i] IN
           /\ (LastCall.f = RoutineOf(a)) =>
                PrevCall = [f |-> "GetUserAction", a |-> a, r |-> "true"]
           /\ (PrevCall = [f |-> "GetUserAction", a |-> a, r |-> "true"]) =>
                LastCall.f = RoutineOf(a)
           /\ (turnPolls # <<>> /\ (LastCall.f = RoutineOf(a) \/ LastCall.a = a)) =>
                turnPolls = SubSeq(PollOrder, 1, i)
    /\ pc = "loop_test" => turnPolls \in {<<>>, PollOrder}

\* C2 as stated: every turn that is entered polls all five flags, once each
\* and in the fixed order, serving each flag found set before the next poll,
\* and only then is the status read again.
C2_Original_AllFivePolledEveryTurn ==
    /\ C2_OrderWithinTurn
    /\ (pc \notin InTurn /\ turnPolls # <<>>) => turnPolls = PollOrder

\* C2 as amended: the same, except that a turn in which UserF or UserG throws
\* the host problem's exception ends there, the later flags unpolled.
C2_AllFivePolledUnlessHostThrows ==
    /\ C2_OrderWithinTurn
    /\ (pc \notin InTurn /\ turnPolls # <<>> /\ ~RaisedInTurn) => turnPolls = PollOrder
    /\ RaisedInTurn =>
         /\ LastCall = [f |-> err.cause, a |-> "", r |-> "raised"]
         /\ turnPolls = SubSeq(PollOrder, 1, IF err.cause = "UserF" THEN 3 ELSE 4)

C2_Witness ==
    /\ pc = "loop_test"
    /\ turnPolls = PollOrder
    /\ LastCall.f = "WorhpFidif"
    /\ PrevCall = [f |-> "GetUserAction", a |-> "fidif", r |-> "true"]

\* C3: when the loop has ended on a terminal status, of success or of error,
\* and nothing throws afterwards, evolve returns having called StatusMsg once
\* and then WorhpFree once, both after the loop and as its last two calls.
C3_TeardownOnReturn ==
    /\ pc = "returned" =>
         /\ ~Running
         /\ SelectSeq(lifecycle, IsTearDown) = <<"StatusMsg", "WorhpFree">>
         /\ PrevCall.f = "StatusMsg"
         /\ LastCall.f = "WorhpFree"
    /\ (pc \in InTurn \cup {"loop_test", "final", "compare", "statusmsg"}) =>
         SelectSeq(lifecycle, IsTearDown) = <<>>

C3_Witness ==
    /\ pc = "returned"
    /\ cnt.status < TerminateError
    /\ turnPolls = PollOrder

\* C4: once WorhpInit has been called, StatusMsg and WorhpFree are called on
\* every path out of evolve, the exceptional ones included.
C4_TeardownOnEveryExit ==
    (Ended /\ SelectSeq(lifecycle, IsSetUp) = <<"WorhpPreInit", "WorhpInit">>) =>
        SelectSeq(lifecycle, IsTearDown) = <<"StatusMsg", "WorhpFree">>

\* C5: past the loading of the library, WorhpPreInit is called once and then
\* WorhpInit once; WorhpInit finds opt.n, opt.m and the dense declarations
\* in place; no flag is polled and no status tested before both have returned.
C5_TwoPhaseInit ==
    /\ IsPrefix(SelectSeq(lifecycle, IsSetUp), <<"WorhpPreInit", "WorhpInit">>)
    /\ (pc \in {"initial_values", "bounds", "loop_test"} \cup InTurn \cup AfterLoop
        \/ RaisedAfterInit) =>
         /\ SelectSeq(lifecycle, IsSetUp) = <<"WorhpPreInit", "WorhpInit">>
         /\ initSaw = [n |-> dim, m |-> prob.nc, DF |-> "dense", DG |-> "dense",
                       HM |-> "dense"]
    /\ (turnPolls # <<>> \/ LastCall.f = "GetUserAction" \/ pc \in InTurn) =>
         SelectSeq(lifecycle, IsSetUp) = <<"WorhpPreInit", "WorhpInit">>
    /\ pc \in {"preinit", "readparams", "dimensions", "init"} =>
         /\ turnPolls = <<>>
         /\ LastCall.f \in {"none", "WorhpPreInit", "ReadParams"}

C5_Witness ==
    /\ pc = "poll_callWorhp"
    /\ turnPolls = <<>>
    /\ LastCall.f = "WorhpInit"
    /\ initSaw.m = MaxM

\* C6: a problem with several objectives, a stochastic problem or an empty
\* population makes evolve throw std::invalid_argument straight from the
\* preamble: the mutex is never taken, the library never opened, no solver
\* entry point called. The tests come in this order, so the first of the
\* three conditions that holds names the error.
C6_PreambleFailsFast ==
    (pc # "idle" /\ (prob.nobj # 1 \/ prob.stochastic \/ Len(pop_in) = 0)) =>
        /\ pc \in {"check_nobj", "check_stochastic", "check_empty", "raised"}
        /\ ~everLocked
        /\ ~everLoaded
        /\ imported = <<>>
        /\ lifecycle = <<>>
        /\ LastCall = NoCall
        /\ pc = "raised" =>
             err = [type |-> "invalid_argument",
                    what |-> IF prob.nobj # 1 THEN "multi-objective"
                             ELSE IF prob.stochastic THEN "stochastic"
                             ELSE "empty population",
                    cause |-> ""]

C6_Witness ==
    /\ pc = "raised"
    /\ prob.nobj = 1
    /\ prob.stochastic
    /\ Len(pop_in) = 0
    /\ err.what = "stochastic"

\* C7: an out-of-range selection or replacement index makes evolve fail
\* before the library is loaded and before any solver entry point is called.
C7_IndexErrorBeforeResources ==
    (pc = "raised" /\ err.type = "out_of_range") =>
        /\ ~everLoaded
        /\ lifecycle = <<>>
        /\ LastCall = NoCall

\* C8: when the library cannot be acquired (no regular file, no loadable
\* module, one of the ten symbols missing) evolve throws one
\* std::invalid_argument carrying the text of the underlying error, the mutex
\* is free again, and no record has been touched and no solver entry point
\* called; evolve gets to the records only with all ten symbols bound.
C8_LoadFailure ==
    /\ pc = "import" =>
         /\ imported = SubSeq(Required, 1, Len(imported))
         /\ \A i \in 1..Len(imported) : imported[i] \in libworhp.syms
    /\ caught # "" =>
         /\ pc \in {"catch", "raised"}
         /\ caught \in {"not a file", "not a shared library"} \cup RequiredSet
         /\ caught \in RequiredSet =>
              /\ Len(imported) < Len(Required)
              /\ caught = Required[Len(imported) + 1]
         /\ caught \notin RequiredSet => imported = <<>>
         /\ ~library_load_mutex
         /\ lifecycle = <<>>
         /\ LastCall = NoCall
         /\ <<opt, wsp, par, cnt>> = <<EmptyOpt, EmptyWsp, EmptyPar, EmptyCnt>>
         /\ pc = "raised" =>
              err = [type |-> "invalid_argument", what |-> "loading the worhp library",
                     cause |-> caught]
    /\ (lifecycle # <<>> \/ LastCall # NoCall) =>
         /\ imported = Required
         /\ caught = ""

C8_Witness ==
    /\ pc = "raised"
    /\ err.type = "invalid_argument"
    /\ err.cause = "WorhpFidif"
    /\ Len(imported) = Len(Required) - 1

\* C9: replace_individual is called exactly when compare_fc(f_final, f0,
\* n_eq, c_tol) holds, f_final being the unscaled fitness at the final opt.X
\* and f0 the fitness of the selected individual; what is written into the
\* population is that candidate, which f0 is not better than; and when the
\* comparison fails the population returned is the one passed in.
C9_ReplaceIffBetter ==
    LET candidate == [x |-> opt.X, f |-> fitness(prob, opt.X)]
        better == compare_fc(candidate.f, sel_xf.f, prob.nec, c_tol(prob))
    IN  /\ (pc \in {"loop_test"} \cup InTurn \cup AfterLoop \/ RaisedAfterBounds) =>
             /\ \E i \in 1..Len(pop_in) : pop_in[i] = sel_xf
             /\ pc \notin {"statusmsg", "free", "return", "returned"} => pop = pop_in
        /\ (pc \in {"loop_test", "final", "compare"} \cup InTurn) => ~replaced
        /\ pc \in {"statusmsg", "free", "return", "returned"} =>
             /\ replaced <=> better
             /\ replaced =>
                  /\ \E i \in 1..Len(pop_in) : pop = [pop_in EXCEPT ![i] = candidate]
                  /\ ~compare_fc(sel_xf.f, candidate.f, prob.nec, c_tol(prob))
             /\ ~replaced => pop = pop_in
        /\ (pc = "raised" /\ err.what = "replace_individual") => (replaced /\ better)
        /\ pc = "returned" => ret = pop

C9_Witness ==
    /\ pc = "returned"
    /\ replaced
    /\ Len(ret) = MaxPop
    /\ ret # pop_in
    /\ prob.nc = MaxM

\* C10: when the first turn of the loop starts, and from then on, the
\* constraint bounds are [0, 0] for the equality constraints, the first n_eq
\* ones, and [-par.Infty, 0] for the others, and the box bounds are lb and ub.
C10_BoundsPartition ==
    (pc \in {"loop_test"} \cup InTurn \cup AfterLoop \/ RaisedAfterBounds) =>
        /\ DOMAIN opt.GL = 1..prob.nc
        /\ DOMAIN opt.GU = 1..prob.nc
        /\ \A i \in 1..prob.nc :
             /\ i <= prob.nec => (opt.GL[i] = 0 /\ opt.GU[i] = 0)
             /\ i > prob.nec => (opt.GL[i] = -par.Infty /\ opt.GU[i] = 0)
        /\ par.Infty = WorhpInfty
        /\ DOMAIN opt.XL = 1..dim
        /\ DOMAIN opt.XU = 1..dim
        /\ \A i \in 1..dim : opt.XL[i] = lb[i] /\ opt.XU[i] = ub[i]

C10_Witness ==
    /\ pc = "poll_callWorhp"
    /\ turnPolls = <<>>
    /\ LastCall.f = "WorhpInit"
    /\ prob.nec >= 1
    /\ prob.nc > prob.nec

\* C13: set_verbosity(n) throws std::invalid_argument exactly when the object
\* was constructed with screen_output = true and n is not zero, and then
\* m_verbosity is what it was before the call; in every other case it returns
\* normally with m_verbosity = n, and a get_verbosity() that follows returns n.
C13_SetVerbosity ==
    /\ LastOp.f = "set_verbosity" =>
         /\ LastOp.r \in {"ok", "raised"}
         /\ LastOp.r = "raised" <=> (m_screen_output /\ LastOp.n # 0)
         /\ LastOp.r = "raised" => m_verbosity = LastOp.was
         /\ LastOp.r = "ok" => m_verbosity = LastOp.n
    /\ (LastOp.f = "get_verbosity" /\ PrevOp.f = "set_verbosity" /\ PrevOp.r = "ok") =>
         /\ LastOp.r = "ok"
         /\ LastOp.n = PrevOp.n
         /\ m_verbosity = PrevOp.n

C13_Witness ==
    /\ m_screen_output
    /\ PrevOp = [f |-> "set_verbosity", n |-> 0, r |-> "ok", was |-> Indeterminate]
    /\ LastOp = [f |-> "set_verbosity", n |-> MaxVerbosity, r |-> "raised", was |-> 0]
    /\ m_verbosity = 0

\* C14: get_verbosity() returns 0 for as long as no set_verbosity has
\* succeeded on the object (only a set_verbosity that succeeds writes
\* m_verbosity, so until then the member is as the constructor left it).
C14_DefaultVerbosityZero ==
    (LastOp.f = "get_verbosity" /\ m_verbosity = Indeterminate) => LastOp.n = 0

\* C11: no two evolve calls of the process are between their WorhpPreInit
\* and the return of their WorhpFree at the same time.
C11_SolverInteractionExclusive ==
    Cardinality({t \in Threads : InSolver(t)}) <= 1

\* C12: at most one evolve call is inside the try block (file check, opening
\* of the library, the ten imports) at any time; the mutex is held exactly
\* while some call is in there, so it is free again when the block is left,
\* normally or by exception; and no call waits for the mutex forever.
C12_AcquisitionSerialized ==
    /\ [](/\ Cardinality({t \in Threads : InAcquisition(t)}) <= 1
          /\ library_load_mutex <=> \E t \in Threads : InAcquisition(t))
    /\ \A t \in Threads : (thread[t].pc = "lock") ~> (thread[t].pc # "lock")

C12_Witness ==
    \E t, u \in Threads :
        /\ thread[t].pc = "catch"
        /\ thread[t].imported = Len(Required) - 1
        /\ thread[u].pc = "import"
        /\ thread[u].imported = Len(Required)
        /\ library_load_mutex

\* C15: when evolve returns, the population returned has as many individuals
\* as the one passed in, each with a decision vector of length n and a
\* fitness vector of length 1 + m, and at most one of them differs from the
\* individual at the same place of the input.
C15_PopulationShapeKept ==
    pc = "returned" =>
        /\ Len(ret) = Len(pop_in)
        /\ \A i \in 1..Len(ret) :
             /\ Len(ret[i].x) = dim
             /\ Len(ret[i].f) = 1 + prob.nc
        /\ Cardinality({i \in 1..Len(ret) : ret[i] # pop_in[i]}) <= 1

C15_Witness ==
    /\ pc = "returned"
    /\ Len(pop_in) = MaxPop
    /\ Cardinality({i \in 1..Len(ret) : ret[i] # pop_in[i]}) = 1
    /\ Len(ret[MaxPop].f) = 1 + MaxM

\* C16: an exception thrown by prob.fitness, in UserF, in UserG or in the
\* evaluation of x_final after the loop, is the exception evolve ends with:
\* no call follows the one that raised, evolve returns no population and
\* replaces no individual.
C16_HostFailurePropagates ==
    /\ PrevCall.r # "raised"
    /\ LastCall.r = "raised" =>
         /\ LastCall.f \in {"UserF", "UserG"}
         /\ pc = "raised"
         /\ err = [type |-> "host", what |-> "fitness", cause |-> LastCall.f]
    /\ err.type = "host" =>
         /\ pc = "raised"
         /\ err.what = "fitness"
         /\ ret = <<>>
         /\ pop = pop_in
         /\ ~replaced
         /\ err.cause \in {"UserF", "UserG", "final"}
         /\ err.cause # "final" => LastCall = [f |-> err.cause, a |-> "", r |-> "raised"]
         /\ err.cause = "final" => (~Running /\ f_final = <<>> /\ x_final = opt.X)

C16_Witness ==
    /\ pc = "raised"
    /\ err = [type |-> "host", what |-> "fitness", cause |-> "UserF"]
    /\ LastCall = [f |-> "UserF", a |-> "", r |-> "raised"]
    /\ ret = <<>>
    /\ Len(pop_in) = MaxPop

\* C17: when the loop has ended with opt.X equal to x0, the decision vector
\* of the selected individual, replace_individual is not called and the
\* population returned is the one passed in.
C17_UnmovedCandidateKept ==
    /\ (pc \in {"statusmsg", "free", "return", "returned"} /\ opt.X = sel_xf.x) =>
         /\ ~replaced
         /\ pop = pop_in
         /\ pc = "returned" => ret = pop_in
    /\ (pc = "raised" /\ err.what = "replace_individual") => opt.X # sel_xf.x

C17_Witness ==
    /\ pc = "returned"
    /\ opt.X = sel_xf.x
    /\ turnPolls = PollOrder
    /\ ret = pop_in
    /\ Len(pop_in) = MaxPop

\* C18 as stated: once cnt.status is terminal, the only calls the driver
\* still makes are the two of the tear-down: no flag is polled and no
\* IterationOutput, UserF, UserG, WorhpFidif or DoneUserAction call made.
C18_Original_NoCallOnceTerminal ==
    [][(~Running /\ calls' # calls) => calls'[2].f \in {"StatusMsg", "WorhpFree"}]_vars

\* C18 as amended: cnt.status is read once per turn, in the loop condition;
\* the loop is left at the first test that finds it terminal, and after that
\* no flag is polled and no call made but the tear-down's; a turn, once
\* entered, is left only at its end or by an exception, whatever the status
\* has become in it.
C18_StatusReadOncePerTurn ==
    /\ [][pc = "loop_test" =>
            /\ pc' = IF Running THEN "poll_callWorhp" ELSE "final"
            /\ calls' = calls]_vars
    /\ [][(pc \in AfterLoop /\ calls' # calls) =>
            calls'[2].f \in {"StatusMsg", "WorhpFree"}]_vars
    /\ [][(pc \in InTurn /\ pc' \notin InTurn) => pc' \in {"loop_test", "raised"}]_vars

C18_Witness ==
    /\ pc = "poll_evalF"
    /\ ~Running
    /\ PrevCall.f = "Worhp"
    /\ LastCall = [f |-> "GetUserAction", a |-> "iterOutput", r |-> "false"]

\* C19: UserF is called only right after GetUserAction(evalF) returned true,
\* and the call changes nothing in the four records but opt.F, which becomes
\* wsp.ScaleObj * fitness(opt.X)[0] (and stays as it was when fitness throws).
C19_UserFOnlyWritesF ==
    /\ [](pc = "UserF" => LastCall = [f |-> "GetUserAction", a |-> "evalF", r |-> "true"])
    /\ [](LastCall.f = "UserF" =>
            PrevCall = [f |-> "GetUserAction", a |-> "evalF", r |-> "true"])
    /\ [][pc = "UserF" =>
            /\ calls'[2].f = "UserF"
            /\ opt' = [opt EXCEPT !.F = IF calls'[2].r = "void"
                                          THEN wsp.ScaleObj * fitness(prob, opt.X)[1]
                                          ELSE @]
            /\ wsp' = wsp
            /\ par' = par
            /\ cnt' = cnt]_vars

C19_Witness ==
    /\ pc = "done_evalF"
    /\ LastCall = [f |-> "UserF", a |-> "", r |-> "void"]
    /\ sel_xf.x = lb
    /\ opt.X = ub
    /\ opt.F = ScaleObj * ub[1]

\* C20: UserG writes fitness(opt.X)[i + 1] into opt.G[i] for each of the m
\* constraints, in the problem's order (the n_eq equality constraints first,
\* as the bounds GL and GU have them), and changes nothing else of opt; the
\* seeding from the selected individual uses the same mapping on f0.
C20_UserGMapping ==
    /\ [][pc = "UserG" =>
            /\ calls'[2].f = "UserG"
            /\ opt' = [opt EXCEPT !.G = IF calls'[2].r = "void"
                                          THEN [i \in 1..prob.nc |->
                                                  fitness(prob, opt.X)[i + 1]]
                                          ELSE @]]_vars
    /\ [][(pc = "initial_values" /\ pc' = "bounds") =>
            opt'.G = [i \in 1..prob.nc |-> sel_xf'.f[i + 1]]]_vars
    /\ [](pc \in InTurn =>
            /\ DOMAIN opt.G = 1..prob.nc
            /\ DOMAIN opt.GL = DOMAIN opt.G
            /\ DOMAIN opt.GU = DOMAIN opt.G)

C20_Witness ==
    /\ pc = "done_evalG"
    /\ LastCall = [f |-> "UserG", a |-> "", r |-> "void"]
    /\ prob.nc = MaxM
    /\ prob.nec = 1
    /\ opt.X # sel_xf.x
    /\ opt.G = [i \in 1..prob.nc |-> fitness(prob, opt.X)[i + 1]]
    /\ opt.G # [i \in 1..prob.nc |-> sel_xf.f[i + 1]]

\* C21 as stated: from the exit of the loop to the return, no statement of
\* evolve itself reads or writes a field of the four records.
C21_Original_NoAccessAfterLoop ==
    (\/ pc \in {"compare", "statusmsg", "free", "return", "returned"}
     \/ pc = "raised" /\ (err.cause = "final" \/ err.what = "replace_individual")) =>
        access = {}

\* C21 as amended: after the exit of the loop evolve itself reads opt.n and
\* opt.X, once, to copy the decision vector into x_final; it reads no other
\* field of the four records and writes none, the records being otherwise
\* handed to StatusMsg and WorhpFree only.
C21_OnlyReadsXAfterLoop ==
    /\ (pc = "compare" \/ (pc = "raised" /\ err.cause = "final")) =>
         /\ access = {Rd("opt", "n"), Rd("opt", "X")}
         /\ x_final = opt.X
    /\ (\/ pc \in {"statusmsg", "free", "return", "returned"}
        \/ pc = "raised" /\ err.what = "replace_individual") =>
         access = {}

C21_Witness ==
    /\ pc = "compare"
    /\ access = {Rd("opt", "n"), Rd("opt", "X")}
    /\ turnPolls = PollOrder
    /\ x_final = ub
    /\ sel_xf.x = lb

\* C23: once WorhpInit has returned no statement of evolve writes a field of
\* par, but for one override of the feasibility tolerance; none is written in
\* or after the loop.
C23_OnlyToleranceWritten ==
    \A a \in access : (a.rec = "par" /\ a.mode = "write") => a.field = "TolFeas"

\* C23, what evolve does: once WorhpInit has returned it writes par in one
\* place, before the initial values are seeded and before the loop: the five
\* fields UserDF, UserDG, UserHM, UserHMstructure and InitialLMest; it
\* overrides no tolerance and writes no field of par in or after the loop.
C23_FlagsWrittenOnceBeforeLoop ==
    LET parWrites == {a \in access : a.rec = "par" /\ a.mode = "write"}
        afterFlags == pc = "bounds" \/ (pc = "raised" /\ err.what = "select_individual")
    IN  /\ afterFlags =>
             /\ parWrites = FlagsAccess
             /\ LastCall.f = "WorhpInit"
             /\ ~par.UserDF /\ ~par.UserDG /\ ~par.UserHM /\ ~par.UserHMstructure
             /\ par.InitialLMest
        /\ ~afterFlags => parWrites = {}

C23_Witness ==
    /\ pc = "bounds"
    /\ FlagsAccess \subseteq access
    /\ LastCall.f = "WorhpInit"
    /\ par.InitialLMest
    /\ ~par.UserDF
    /\ prob.nc = MaxM

\* the positions of the while loop: its condition and its body
InLoop == InTurn \cup {"loop_test"}

TurnOrder == <<"poll_callWorhp", "Worhp", "poll_iterOutput", "IterationOutput",
               "done_iterOutput", "poll_evalF", "UserF", "done_evalF", "poll_evalG",
               "UserG", "done_evalG", "poll_fidif", "WorhpFidif">>

TurnIndex(p) == CHOOSE i \in 1..Len(TurnOrder) : TurnOrder[i] = p

PollPosition(a) ==
    CASE a = "callWorhp" -> "poll_callWorhp"
      [] a = "iterOutput" -> "poll_iterOutput"
      [] a = "evalF" -> "poll_evalF"
      [] a = "evalG" -> "poll_evalG"
      [] a = "fidif" -> "poll_fidif"

\* C24: each poll decides on the request flag as it is when polled, not as it
\* was when the loop condition was read: a request raised during the turn for
\* an action later in the order is served in that turn, one withdrawn during
\* the turn is not; a turn only moves forward through the five actions, so a
\* request raised for an action already passed waits for the next turn, which
\* starts only from a loop condition that finds the status running.
C24_FlagsPolledLive ==
    /\ [][\A a \in UserActions :
            pc = PollPosition(a) =>
                /\ a \in cnt.flags => pc' = RoutineOf(a)
                /\ a \notin cnt.flags => pc' # RoutineOf(a) /\ pc' \in InLoop
                /\ (a \in cnt.flags \ turnStart.flags) => pc' = RoutineOf(a)
                /\ (a \in turnStart.flags \ cnt.flags) => pc' # RoutineOf(a)]_vars
    /\ [][(pc \in InTurn /\ pc' \in InTurn) => TurnIndex(pc) < TurnIndex(pc')]_vars
    /\ [][(pc \in InLoop /\ pc' = "poll_callWorhp") => (pc = "loop_test" /\ Running)]_vars
    /\ [][(pc \in InTurn /\ pc' \in InTurn) => turnStart' = turnStart]_vars

\* UserG is being served for a request raised after the loop condition was
\* read, while a request for IterationOutput, raised in this turn as well and
\* after its poll, waits
C24_Witness ==
    /\ turnStart.kept
    /\ pc = "UserG"
    /\ "evalG" \notin turnStart.flags
    /\ LastCall = [f |-> "GetUserAction", a |-> "evalG", r |-> "true"]
    /\ "iterOutput" \in cnt.flags \ turnStart.flags
    /\ PrevCall.f = "DoneUserAction"

====
